---- MODULE Spec2Model ----
(***************************************************************************)
(* The Open WebUI pipes of this repository (Cloudflare Workers AI,         *)
(* DeepSeek, Mistral, Perplexity, x.AI) as one state machine: the valves   *)
(* and the request a pipe is called with, the call of pipe(), the HTTP     *)
(* exchange it performs, and the generator that decodes a server-sent-     *)
(* event stream line by line.                                              *)
(*                                                                         *)
(* A text is a sequence of one-character strings, so that prefixes,        *)
(* slices, strip() and substring tests are computed as Python computes     *)
(* them.  A JSON value is a tagged record; a JSON object carries a record  *)
(* m whose DOMAIN is its key set, so that `k in d` is k \in DOMAIN d.m.    *)
(*                                                                         *)
(* Spec follows a call through the answer and the decoding of a stream;    *)
(* RequestSpec starts from the requests a host can send and follows each   *)
(* up to the request posted; LiveSpec is Spec with the steps of the pipes' *)
(* own code made fair.                                                     *)
(***************************************************************************)
EXTENDS Integers, Sequences, FiniteSets, TLC

VARIABLES
    adapter,    \* which Pipe class is instantiated
    valves,     \* self.valves: [api_key, account_id], texts
    body,       \* the request dict pipe() is called with
    pc,         \* "ready", then "returned" (pipe was called) or "decoder"
                \* (stream_response was called)
    ret,        \* what pipe() returned
    raised,     \* the exception that reached the host, "none" if none did
    httpCalls,  \* number of requests.post calls made
    response,   \* what the last requests.post did
    gen,        \* the generator: "none", "created", "running", "finished",
                \* "stopped" (the consumer gave it up)
    term,       \* how the generator ended: "", "done", "eof", "error", "raised"
    emitted,    \* the fragments the generator has yielded, in order
    nread,      \* number of items taken from response.iter_lines()
    last,       \* the last item taken from response.iter_lines()
    carried,    \* the text the chunks read so far carry, as the provider sent it
    shape,      \* the shape shared by the chunks read so far
    sent,       \* the last request handed to requests.post
    conn        \* the connection of the streaming response: "none", "open",
                \* "released"

vars == <<adapter, valves, body, pc, ret, raised, httpCalls, response, gen, term,
          emitted, nread, last, carried, shape, sent, conn>>

(***************************************************************************)
(* Bounds of the model.                                                    *)
(***************************************************************************)
MaxLines == 3
MaxOutput == 2

(***************************************************************************)
(* Texts.                                                                  *)
(***************************************************************************)
\* str.startswith
StartsWith(s, p) ==
    /\ Len(s) >= Len(p)
    /\ SubSeq(s, 1, Len(p)) = p

\* s[n:]
Slice(s, n) == SubSeq(s, n + 1, Len(s))

\* the characters str.strip() removes
IsSpace(c) == c \in {" ", "\t", "\n", "\r"}

RECURSIVE LStrip(_)
LStrip(s) ==
    IF s # <<>> /\ IsSpace(Head(s)) THEN LStrip(Tail(s)) ELSE s

RECURSIVE RStrip(_)
RStrip(s) ==
    IF s # <<>> /\ IsSpace(s[Len(s)]) THEN RStrip(SubSeq(s, 1, Len(s) - 1)) ELSE s

\* str.strip
Strip(s) == RStrip(LStrip(s))

\* sub in s
Contains(s, sub) ==
    \E i \in 0..(Len(s) - Len(sub)) : SubSeq(s, i + 1, i + Len(sub)) = sub

Digit(d) == <<"0","1","2","3","4","5","6","7","8","9">>[d + 1]

\* str(n) of a natural number
RECURSIVE NatToText(_)
NatToText(n) ==
    IF n < 10 THEN <<Digit(n)>> ELSE NatToText(n \div 10) \o <<Digit(n % 10)>>

\* data: 
DataPrefix ==
    <<"d","a","t","a",":"," ">>

\* [DONE]
DoneMarker ==
    <<"[","D","O","N","E","]">>

\* Error: Cloudflare API Key is not set. Please configure it in the valve settings.
CF_NoKeyMsg ==
    <<"E","r","r","o","r",":"," ","C","l","o","u","d","f","l","a","r","e"," ","A","P","I",
    " ","K","e","y"," ","i","s"," ","n","o","t"," ","s","e","t","."," ","P","l","e","a",
    "s","e"," ","c","o","n","f","i","g","u","r","e"," ","i","t"," ","i","n"," ","t","h",
    "e"," ","v","a","l","v","e"," ","s","e","t","t","i","n","g","s",".">>

\* Error: Cloudflare Account ID is not set. Please configure it in the valve settings.
CF_NoAccountMsg ==
    <<"E","r","r","o","r",":"," ","C","l","o","u","d","f","l","a","r","e"," ","A","c","c",
    "o","u","n","t"," ","I","D"," ","i","s"," ","n","o","t"," ","s","e","t","."," ","P",
    "l","e","a","s","e"," ","c","o","n","f","i","g","u","r","e"," ","i","t"," ","i","n",
    " ","t","h","e"," ","v","a","l","v","e"," ","s","e","t","t","i","n","g","s",".">>

\* Error: Cloudflare API returned status 
CF_StatusPrefix ==
    <<"E","r","r","o","r",":"," ","C","l","o","u","d","f","l","a","r","e"," ","A","P","I",
    " ","r","e","t","u","r","n","e","d"," ","s","t","a","t","u","s"," ">>

\* Error: Could not extract text from response. Response keys: 
CF_ExtractPrefix ==
    <<"E","r","r","o","r",":"," ","C","o","u","l","d"," ","n","o","t"," ","e","x","t","r",
    "a","c","t"," ","t","e","x","t"," ","f","r","o","m"," ","r","e","s","p","o","n","s",
    "e","."," ","R","e","s","p","o","n","s","e"," ","k","e","y","s",":"," ">>

\* not a dict
CF_NotADict ==
    <<"n","o","t"," ","a"," ","d","i","c","t">>

\* Error: Request to Cloudflare Workers AI timed out.
CF_TimeoutMsg ==
    <<"E","r","r","o","r",":"," ","R","e","q","u","e","s","t"," ","t","o"," ","C","l","o",
    "u","d","f","l","a","r","e"," ","W","o","r","k","e","r","s"," ","A","I"," ","t","i",
    "m","e","d"," ","o","u","t",".">>

\* Error: Failed to connect to Cloudflare Workers AI: 
CF_ConnectPrefix ==
    <<"E","r","r","o","r",":"," ","F","a","i","l","e","d"," ","t","o"," ","c","o","n","n",
    "e","c","t"," ","t","o"," ","C","l","o","u","d","f","l","a","r","e"," ","W","o","r",
    "k","e","r","s"," ","A","I",":"," ">>

\* \n\nError during streaming: 
CF_StreamErrPrefix ==
    <<"\n","\n","E","r","r","o","r"," ","d","u","r","i","n","g"," ","s","t","r","e","a","m",
    "i","n","g",":"," ">>

\* Error: 
ErrorPrefix ==
    <<"E","r","r","o","r",":"," ">>

\*  is not set. Please configure it in the pipe settings.
NotSetSuffix ==
    <<" ","i","s"," ","n","o","t"," ","s","e","t","."," ","P","l","e","a","s","e"," ","c",
    "o","n","f","i","g","u","r","e"," ","i","t"," ","i","n"," ","t","h","e"," ","p","i",
    "p","e"," ","s","e","t","t","i","n","g","s",".">>

\* Error: Failed to connect to 
FailedToConnectTo ==
    <<"E","r","r","o","r",":"," ","F","a","i","l","e","d"," ","t","o"," ","c","o","n","n",
    "e","c","t"," ","t","o"," ">>

\*  API - 
ApiDash ==
    <<" ","A","P","I"," ","-"," ">>

\* Error: No response from 
NoResponseFrom ==
    <<"E","r","r","o","r",":"," ","N","o"," ","r","e","s","p","o","n","s","e"," ","f","r",
    "o","m"," ">>

\*  API
ApiWord ==
    <<" ","A","P","I">>

\* DEEPSEEK_API_KEY
KeyName_deepseek ==
    <<"D","E","E","P","S","E","E","K","_","A","P","I","_","K","E","Y">>

\* MISTRAL_API_KEY
KeyName_mistral ==
    <<"M","I","S","T","R","A","L","_","A","P","I","_","K","E","Y">>

\* PERPLEXITY_API_KEY
KeyName_perplexity ==
    <<"P","E","R","P","L","E","X","I","T","Y","_","A","P","I","_","K","E","Y">>

\* XAI_API_KEY
KeyName_xai ==
    <<"X","A","I","_","A","P","I","_","K","E","Y">>

\* DeepSeek
ApiName_deepseek ==
    <<"D","e","e","p","S","e","e","k">>

\* Mistral
ApiName_mistral ==
    <<"M","i","s","t","r","a","l">>

\* Perplexity
ApiName_perplexity ==
    <<"P","e","r","p","l","e","x","i","t","y">>

\* x.AI
ApiName_xai ==
    <<"x",".","A","I">>

\*  Client Error
ClientError ==
    <<" ","C","l","i","e","n","t"," ","E","r","r","o","r">>

\*  Server Error
ServerError ==
    <<" ","S","e","r","v","e","r"," ","E","r","r","o","r">>

\* Read timed out.
TimeoutText ==
    <<"R","e","a","d"," ","t","i","m","e","d"," ","o","u","t",".">>

\* Connection refused
ConnectionText ==
    <<"C","o","n","n","e","c","t","i","o","n"," ","r","e","f","u","s","e","d">>

\* Connection broken
BrokenText ==
    <<"C","o","n","n","e","c","t","i","o","n"," ","b","r","o","k","e","n">>

\* 'utf-8' codec can't decode byte
Utf8Text ==
    <<"'","u","t","f","-","8","'"," ","c","o","d","e","c"," ","c","a","n","'","t"," ","d",
    "e","c","o","d","e"," ","b","y","t","e">>

\* Expecting value: line 1 column 1 (char 0)
JsonErrText ==
    <<"E","x","p","e","c","t","i","n","g"," ","v","a","l","u","e",":"," ","l","i","n","e",
    " ","1"," ","c","o","l","u","m","n"," ","1"," ","(","c","h","a","r"," ","0",")">>

\* 'str' object has no attribute 'get'
StrNoGetText ==
    <<"'","s","t","r","'"," ","o","b","j","e","c","t"," ","h","a","s"," ","n","o"," ","a",
    "t","t","r","i","b","u","t","e"," ","'","g","e","t","'">>

\* argument of type 'int' is not iterable
NotIterableText ==
    <<"a","r","g","u","m","e","n","t"," ","o","f"," ","t","y","p","e"," ","'","i","n","t",
    "'"," ","i","s"," ","n","o","t"," ","i","t","e","r","a","b","l","e">>

\* 'message'
KeyErrMessageText ==
    <<"'","m","e","s","s","a","g","e","'">>

(***************************************************************************)
(* JSON values, as json.loads and response.json() return them.             *)
(***************************************************************************)
Null == [t |-> "null"]
Num == [t |-> "num"]
Str(s) == [t |-> "str", s |-> s]
Arr(a) == [t |-> "arr", a |-> a]
Dict(m) == [t |-> "obj", m |-> m]

\* isinstance(v, str), isinstance(v, dict), isinstance(v, list)
IsStr(v) == v.t = "str"
IsDict(v) == v.t = "obj"
IsList(v) == v.t = "arr"

\* k in d, for a dict d
Has(d, k) == k \in DOMAIN d.m

\* d[k]
Get(d, k) == d.m[k]

\* the truth value Python gives a JSON value: `if content:`
Truthy(v) ==
    CASE v.t = "str" -> v.s # <<>>
      [] v.t = "arr" -> v.a # <<>>
      [] v.t = "null" -> FALSE
      [] OTHER -> TRUE

\* the body of a response that is not JSON: response.json() raises on it
NotJson == [t |-> "notjson"]

\* the texts a provider puts into its answers
TextA == <<"a">>
TextB == <<"b">>

\* the order in which a body's keys were sent, for list(d.keys())
KeyOrder == <<"result", "response", "choices", "output", "content", "foo">>

RECURSIVE KeysFrom(_, _)
KeysFrom(d, i) ==
    IF i > Len(KeyOrder) THEN <<>>
    ELSE (IF Has(d, KeyOrder[i]) THEN <<KeyOrder[i]>> ELSE <<>>) \o KeysFrom(d, i + 1)

\* list(d.keys())
Keys(d) == KeysFrom(d, 1)

\* the characters of a key
KeyText(k) ==
    CASE k = "result" -> <<"r","e","s","u","l","t">>
      [] k = "response" -> <<"r","e","s","p","o","n","s","e">>
      [] k = "choices" -> <<"c","h","o","i","c","e","s">>
      [] k = "output" -> <<"o","u","t","p","u","t">>
      [] k = "content" -> <<"c","o","n","t","e","n","t">>
      [] k = "foo" -> <<"f","o","o">>

RECURSIVE ReprItems(_)
ReprItems(ks) ==
    IF ks = <<>> THEN <<>>
    ELSE <<"'">> \o KeyText(Head(ks)) \o <<"'">>
         \o (IF Tail(ks) = <<>> THEN <<>> ELSE <<",", " ">> \o ReprItems(Tail(ks)))

\* str(list_of_keys), as an f-string renders it
ListRepr(ks) == <<"[">> \o ReprItems(ks) \o <<"]">>

(***************************************************************************)
(* What the provider sends.  An item of response.iter_lines() is a line of *)
(* text that holds no JSON payload (TextLine), the line "data: " followed  *)
(* by the JSON text of a value (EventLine), or bytes that are not UTF-8    *)
(* (BadBytes).                                                             *)
(***************************************************************************)
TextLine(s) == [k |-> "text", s |-> s]
EventLine(v) == [k |-> "event", v |-> v]
BadBytes == [k |-> "bytes"]
NoLine == [k |-> "none"]

\* {"delta": {"content": c}}, an element of a chunk's choices
Delta(c) == Dict([delta |-> Dict([content |-> c])])

\* {"message": {"content": c}}, an element of a complete answer's choices
Message(c) == Dict([message |-> Dict([content |-> c])])

\* {"choices": [{"delta": {"content": c}}]}: a chat-completion chunk
Chunk(c) == Dict([choices |-> Arr(<<Delta(Str(c))>>)])

\* {"response": c}: a Workers AI chunk
RunChunk(c) == Dict([response |-> Str(c)])

TextLines ==
    { TextLine(<<>>),
      TextLine(DataPrefix \o DoneMarker),
      TextLine(DataPrefix \o <<" ">> \o DoneMarker \o <<" ">>),
      TextLine(DataPrefix \o <<"o","o","p","s">>),
      TextLine(DataPrefix),
      TextLine(<<":"," ","p","i","n","g">>) }

EventValues ==
    { RunChunk(TextA),
      Dict([response |-> Str(TextA), result |-> Str(TextB)]),
      Dict([result |-> Str(TextB)]),
      Dict([result |-> RunChunk(TextA)]),
      Dict([result |-> Dict([foo |-> Num]), content |-> Str(TextB)]),
      Chunk(TextA),
      Chunk(TextB),
      Dict([choices |-> Arr(<<Delta(Str(TextA)), Delta(Str(TextB))>>)]),
      Dict([choices |-> Arr(<<Delta(Str(<<>>)), Delta(Str(TextB))>>)]),
      Dict([choices |-> Arr(<<Delta(Null)>>)]),
      Dict([choices |-> Arr(<<Dict([delta |-> Dict([role |-> Str(TextA)])])>>)]),
      Dict([choices |-> Arr(<<Dict([finish_reason |-> Str(TextA)])>>)]),
      Dict([choices |-> Arr(<<>>), content |-> Str(TextA)]),
      Dict([content |-> Str(TextB)]),
      Dict([foo |-> Num]),
      Num }

Lines == TextLines \cup {EventLine(v) : v \in EventValues} \cup {BadBytes}

\* the elements of an "output" array of the /responses endpoint
OutputText(s) == Dict([type |-> Str(<<"output_text">>), text |-> Str(s)])
Refusal == Dict([type |-> Str(<<"refusal">>)])
MessageItem(c) == Dict([type |-> Str(<<"message">>), content |-> Arr(c)])
ReasoningItem == Dict([type |-> Str(<<"reasoning">>)])

OutputItems ==
    { ReasoningItem,
      MessageItem(<<>>),
      MessageItem(<<OutputText(TextA)>>),
      MessageItem(<<OutputText(TextB), OutputText(TextA)>>),
      MessageItem(<<Refusal, OutputText(TextB)>>) }

OutputArrays == UNION {[1..n -> OutputItems] : n \in 0..MaxOutput}

\* the objects an answer holds, bare or inside a "result" envelope
WorkingObjects ==
    { RunChunk(TextA),
      Dict([response |-> Str(TextA), choices |-> Arr(<<Message(Str(TextB))>>)]),
      Dict([choices |-> Arr(<<Message(Str(TextB))>>)]),
      Dict([choices |-> Arr(<<Message(Str(TextA)), Message(Str(TextB))>>)]),
      Dict([choices |-> Arr(<<>>)]),
      Dict([choices |-> Arr(<<Delta(Str(TextA))>>)]),
      Dict([foo |-> Num]) }
    \cup {Dict([output |-> Arr(o)]) : o \in OutputArrays}
    \cup {Dict([response |-> Str(TextB), output |-> Arr(o)]) : o \in OutputArrays}
    \cup {Dict([choices |-> Arr(<<Message(Str(TextB))>>), output |-> Arr(o)]) :
            o \in OutputArrays}

\* the bodies of an answer with status 200
JsonBodies ==
    {Str(TextA), Num, NotJson}
    \cup WorkingObjects
    \cup {Dict([result |-> w]) : w \in WorkingObjects \cup {Str(TextB), Num}}
    \cup {Dict([result |-> w, foo |-> Num]) : w \in {Dict([foo |-> Num]), Num}}

\* the texts of an answer with an error status
ErrorBodies == {<<>>, <<"q">>, <<"q", "z">>}

Statuses == {200, 401, 500}

\* what requests.post does: it raises, or returns a response
NetOutcomes ==
    {[k |-> "timeout"], [k |-> "connection"]}
    \cup {[k |-> "response", status |-> 200, text |-> <<>>, json |-> j] : j \in JsonBodies}
    \cup {[k |-> "response", status |-> s, text |-> t, json |-> NotJson] :
            s \in Statuses \ {200}, t \in ErrorBodies}

\* what requests.post(..., stream=True) does: the lines come later
StreamOutcomes ==
    {[k |-> "timeout"], [k |-> "connection"]}
    \cup {[k |-> "response", status |-> 200, text |-> <<>>]}
    \cup {[k |-> "response", status |-> s, text |-> t] :
            s \in Statuses \ {200}, t \in ErrorBodies}

(***************************************************************************)
(* Exceptions: the class an except clause matches on, and str(e).          *)
(***************************************************************************)
Exc(cls, text) == [cls |-> cls, text |-> text]

\* str(e) of the HTTPError response.raise_for_status() raises
HTTPErrorText(status) ==
    NatToText(status) \o (IF status < 500 THEN ClientError ELSE ServerError)

\* the exception requests.post raises for an outcome without a response
PostError(o) ==
    IF o.k = "timeout" THEN Exc("Timeout", TimeoutText)
    ELSE Exc("RequestException", ConnectionText)

\* what a step of a function does: it returns v, or raises e
Return(v) == [k |-> "return", v |-> v]
Raise(e) == [k |-> "raise", e |-> e]

(***************************************************************************)
(* The stream decoders.  One step takes one item of iter_lines() and gives *)
(* the fragments it yields (out) and what the loop does next (ctl).        *)
(***************************************************************************)
Continue(out) == [ctl |-> "continue", out |-> out]
Break == [ctl |-> "break", out |-> <<>>]
Fail(e) == [ctl |-> "raise", out |-> <<>>, e |-> e]

\* line.startswith("data: ")
IsDataLine(l) == l.k = "event" \/ StartsWith(l.s, DataPrefix)

\* json.loads(data): the value, or NotJson when it raises JSONDecodeError
json_loads(l) == IF l.k = "event" THEN l.v ELSE NotJson

\* cloudflare: for choice in json_data["choices"]
RECURSIVE cf_choices(_)
cf_choices(cs) ==
    IF cs = <<>> THEN <<>>
    ELSE LET choice == Head(cs)
             content == IF Has(Get(choice, "delta"), "content")
                        THEN Get(Get(choice, "delta"), "content")
                        ELSE Str(<<>>)
         IN  (IF Has(choice, "delta") /\ Truthy(content) THEN <<content>> ELSE <<>>)
             \o cf_choices(Tail(cs))

\* cloudflare: the fragments of a parsed payload
cf_fragments(json_data) ==
    IF ~IsDict(json_data)
    THEN Fail(Exc("Exception", NotIterableText))
    ELSE IF Has(json_data, "response")
    THEN Continue(<<Get(json_data, "response")>>)
    ELSE IF Has(json_data, "result")
    THEN LET result == Get(json_data, "result")
         IN  IF IsStr(result) THEN Continue(<<result>>)
             ELSE IF IsDict(result) /\ Has(result, "response")
             THEN Continue(<<Get(result, "response")>>)
             ELSE Continue(<<>>)
    ELSE IF Has(json_data, "choices")
    THEN Continue(cf_choices(Get(json_data, "choices").a))
    ELSE IF Has(json_data, "content")
    THEN Continue(<<Get(json_data, "content")>>)
    ELSE Continue(<<>>)

\* cloudflare: if data == "[DONE]"
cf_is_done(data) == data = DoneMarker

\* cloudflare: except json.JSONDecodeError
cf_on_decode_error_skip(data) == <<>>
cf_on_decode_error(data) ==
    IF data # <<>> /\ data # DoneMarker THEN <<Str(data)>> ELSE <<>>

\* cloudflare: the body of `for line in response.iter_lines()`
cf_line(l) ==
    IF l.k = "bytes" THEN Fail(Exc("Exception", Utf8Text))
    ELSE IF l.k = "text" /\ l.s = <<>> THEN Continue(<<>>)
    ELSE IF ~IsDataLine(l) THEN Continue(<<>>)
    ELSE IF l.k = "text" /\ cf_is_done(Slice(l.s, 6)) THEN Break
    ELSE IF json_loads(l) = NotJson
    THEN Continue(cf_on_decode_error(Slice(l.s, 6)))
    ELSE cf_fragments(json_loads(l))

\* deepseek, mistral, perplexity, xai: if data_str.strip() == "[DONE]"
strict_is_done_unstripped(data_str) == data_str = DoneMarker
strict_is_done(data_str) == Strip(data_str) = DoneMarker

\* deepseek, mistral, perplexity, xai: the fragments of a parsed payload
strict_fragments(data) ==
    IF ~IsDict(data)
    THEN Fail(Exc("Exception", NotIterableText))
    ELSE IF Has(data, "choices") /\ Len(Get(data, "choices").a) > 0
    THEN LET first == Get(data, "choices").a[1]
         IN  IF Has(first, "delta") /\ Has(Get(first, "delta"), "content")
             THEN Continue(<<Get(Get(first, "delta"), "content")>>)
             ELSE Continue(<<>>)
    ELSE Continue(<<>>)

\* deepseek, mistral, perplexity, xai: the body of `for line in response.iter_lines()`
strict_line(l) ==
    IF l.k = "bytes" THEN Fail(Exc("Exception", Utf8Text))
    ELSE IF l.k = "text" /\ l.s = <<>> THEN Continue(<<>>)
    ELSE IF ~IsDataLine(l) THEN Continue(<<>>)
    ELSE IF l.k = "text" /\ strict_is_done(Slice(l.s, 6)) THEN Break
    ELSE IF json_loads(l) = NotJson THEN Continue(<<>>)
    ELSE strict_fragments(json_loads(l))

\* 'int' object has no attribute 'get'
IntNoGetText ==
    <<"'","i","n","t","'"," ","o","b","j","e","c","t"," ","h","a","s"," ","n","o"," ","a",
    "t","t","r","i","b","u","t","e"," ","'","g","e","t","'">>

(***************************************************************************)
(* The non-streaming extraction.                                           *)
(***************************************************************************)
NotFound == [k |-> "notfound"]

\* item.get("type") == name
TypeIs(item, name) == Has(item, "type") /\ Get(item, "type") = Str(name)

\* cloudflare: for content_item in content
RECURSIVE cf_scan_content(_)
cf_scan_content(content) ==
    IF content = <<>> THEN NotFound
    ELSE LET content_item == Head(content)
         IN  IF IsDict(content_item) /\ TypeIs(content_item, <<"output_text">>)
             THEN Return(IF Has(content_item, "text")
                         THEN Get(content_item, "text") ELSE Str(<<>>))
             ELSE cf_scan_content(Tail(content))

\* cloudflare: for item in output_array
cf_scan_output_first_item(output_array) ==
    IF output_array = <<>> THEN NotFound
    ELSE LET item == Head(output_array)
         IN  IF Has(item, "content") /\ IsList(Get(item, "content"))
             THEN cf_scan_content(Get(item, "content").a)
             ELSE NotFound

RECURSIVE cf_scan_output(_)
cf_scan_output(output_array) ==
    IF output_array = <<>> THEN NotFound
    ELSE LET item == Head(output_array)
             content == IF Has(item, "content") THEN Get(item, "content") ELSE Arr(<<>>)
             found == IF IsDict(item) /\ TypeIs(item, <<"message">>) /\ IsList(content)
                      THEN cf_scan_content(content.a)
                      ELSE NotFound
         IN  IF found # NotFound THEN found ELSE cf_scan_output(Tail(output_array))

\* cloudflare: the fallback text of pipe
cf_fallback(response_data) ==
    Str(CF_ExtractPrefix
        \o (IF IsDict(response_data) THEN ListRepr(Keys(response_data)) ELSE CF_NotADict))

\* cloudflare: pipe, from `response_data = result.get("result", result)` on
cf_extract(result) ==
    IF ~IsDict(result)
    THEN Raise(Exc("Exception", IF IsStr(result) THEN StrNoGetText ELSE IntNoGetText))
    ELSE LET response_data == IF Has(result, "result") THEN Get(result, "result")
                              ELSE result
             found == IF IsDict(response_data) /\ Has(response_data, "output")
                         /\ IsList(Get(response_data, "output"))
                      THEN cf_scan_output(Get(response_data, "output").a)
                      ELSE NotFound
         IN  IF IsStr(response_data) THEN Return(response_data)
             ELSE IF IsDict(response_data) /\ Has(response_data, "response")
             THEN Return(Get(response_data, "response"))
             ELSE IF found # NotFound THEN found
             ELSE Return(cf_fallback(response_data))

KeyName(a) ==
    CASE a = "deepseek" -> KeyName_deepseek
      [] a = "mistral" -> KeyName_mistral
      [] a = "perplexity" -> KeyName_perplexity
      [] a = "xai" -> KeyName_xai

ApiName(a) ==
    CASE a = "deepseek" -> ApiName_deepseek
      [] a = "mistral" -> ApiName_mistral
      [] a = "perplexity" -> ApiName_perplexity
      [] a = "xai" -> ApiName_xai

\* deepseek, mistral, perplexity, xai: _handle_non_stream after response.json()
strict_extract(a, data) ==
    IF ~IsDict(data) /\ ~IsStr(data)
    THEN Raise(Exc("Exception", NotIterableText))
    ELSE IF IsDict(data) /\ Has(data, "choices") /\ Len(Get(data, "choices").a) > 0
    THEN LET first == Get(data, "choices").a[1]
         IN  IF Has(first, "message")
             THEN Return(Get(Get(first, "message"), "content"))
             ELSE Raise(Exc("Exception", KeyErrMessageText))
    ELSE Return(Str(NoResponseFrom \o ApiName(a) \o ApiWord))

\* deepseek, mistral, perplexity, xai: _handle_non_stream
\* (o: what requests.post does; cls: the class of the error response.json() raises)
handle_non_stream(a, o, cls) ==
    IF o.k # "response" THEN Raise(PostError(o))
    ELSE IF o.status >= 400
    THEN Raise(Exc("RequestException", HTTPErrorText(o.status)))
    ELSE IF o.json = NotJson THEN Raise(Exc(cls, JsonErrText))
    ELSE strict_extract(a, o.json)

(***************************************************************************)
(* pipe().                                                                 *)
(***************************************************************************)
Adapters == {"cloudflare", "deepseek", "mistral", "perplexity", "xai"}
StrictAdapters == Adapters \ {"cloudflare"}

\* the generator object a streaming call returns
Generator == [t |-> "generator"]
NoValue == [t |-> "unset"]
NoExc == [cls |-> "none"]
NoResponse == [k |-> "none"]

\* e is matched by `except requests.exceptions.RequestException`
IsRequestException(e) == e.cls \in {"Timeout", "RequestException"}

\* cloudflare: if not self.valves.CLOUDFLARE_API_KEY
cf_key_unset(v) == v.api_key = <<>>

\* cloudflare: stream = False
cf_stream == FALSE

\* cloudflare: the except clauses of pipe
cf_except(e) ==
    IF e.cls = "Timeout" THEN Str(CF_TimeoutMsg)
    ELSE IF e.cls = "RequestException" THEN Str(CF_ConnectPrefix \o e.text)
    ELSE Str(ErrorPrefix \o e.text)

\* cloudflare: the text for a status other than 200
cf_status_error(status, error_text) ==
    Str(CF_StatusPrefix \o NatToText(status) \o <<":", " ">> \o error_text)

\* cloudflare: pipe (o: what requests.post does; cls: the class of the error
\* response.json() raises)
cf_pipe(v, o, cls) ==
    IF cf_key_unset(v)
    THEN [ret |-> Str(CF_NoKeyMsg), calls |-> 0, gen |-> "none"]
    ELSE IF v.account_id = <<>>
    THEN [ret |-> Str(CF_NoAccountMsg), calls |-> 0, gen |-> "none"]
    ELSE IF cf_stream
    THEN IF o.k # "response"
         THEN [ret |-> cf_except(PostError(o)), calls |-> 1, gen |-> "none"]
         ELSE IF o.status # 200
         THEN [ret |-> cf_status_error(o.status, o.text), calls |-> 1, gen |-> "none"]
         ELSE [ret |-> Generator, calls |-> 1, gen |-> "running"]
    ELSE IF o.k # "response"
    THEN [ret |-> cf_except(PostError(o)), calls |-> 1, gen |-> "none"]
    ELSE IF o.status # 200
    THEN [ret |-> cf_status_error(o.status, o.text), calls |-> 1, gen |-> "none"]
    ELSE IF o.json = NotJson
    THEN [ret |-> cf_except(Exc(cls, JsonErrText)), calls |-> 1, gen |-> "none"]
    ELSE LET r == cf_extract(o.json)
         IN  [ret |-> IF r.k = "return" THEN r.v ELSE cf_except(r.e),
              calls |-> 1, gen |-> "none"]

\* deepseek, mistral, perplexity, xai: if not self.valves.<NAME>_API_KEY
strict_key_never_unset(v) == FALSE
strict_key_unset(v) == v.api_key = <<>>

\* deepseek, mistral, perplexity, xai: the except clauses of pipe
strict_except(a, e) ==
    IF IsRequestException(e)
    THEN Str(FailedToConnectTo \o ApiName(a) \o ApiDash \o e.text)
    ELSE Str(ErrorPrefix \o e.text)

\* body.get("stream", False)
StreamFlag(b) == IF "stream" \in DOMAIN b THEN b.stream ELSE FALSE

\* strict_pipe with the streaming request posted before pipe returns
strict_pipe_eager(a, v, b, o, cls) ==
    IF strict_key_unset(v)
    THEN [ret |-> Str(ErrorPrefix \o KeyName(a) \o NotSetSuffix),
          calls |-> 0, gen |-> "none"]
    ELSE IF StreamFlag(b)
    THEN [ret |-> Generator, calls |-> 1, gen |-> "created"]
    ELSE LET r == handle_non_stream(a, o, cls)
         IN  [ret |-> IF r.k = "return" THEN r.v ELSE strict_except(a, r.e),
              calls |-> 1, gen |-> "none"]

\* deepseek, mistral, perplexity, xai: pipe
strict_pipe(a, v, b, o, cls) ==
    IF strict_key_unset(v)
    THEN [ret |-> Str(ErrorPrefix \o KeyName(a) \o NotSetSuffix),
          calls |-> 0, gen |-> "none"]
    ELSE IF StreamFlag(b)
    THEN [ret |-> Generator, calls |-> 0, gen |-> "created"]
    ELSE LET r == handle_non_stream(a, o, cls)
         IN  [ret |-> IF r.k = "return" THEN r.v ELSE strict_except(a, r.e),
              calls |-> 1, gen |-> "none"]

(***************************************************************************)
(* What the chunks of a stream carry, told from the lines alone: a chat-   *)
(* completion stream is made of {"choices": [{"delta": {"content": c}}]}   *)
(* chunks, a Workers AI stream of {"response": c} chunks; blank lines,     *)
(* comments and the closing "data: [DONE]" are framing.                    *)
(***************************************************************************)
ChunkKind(l) ==
    IF l.k = "event" /\ \E c \in {TextA, TextB} : l.v = Chunk(c) THEN "chat"
    ELSE IF l.k = "event" /\ \E c \in {TextA, TextB} : l.v = RunChunk(c) THEN "run"
    ELSE IF l.k = "text"
            /\ (l.s = <<>> \/ ~StartsWith(l.s, DataPrefix) \/ l.s = DataPrefix \o DoneMarker)
    THEN "framing"
    ELSE "other"

ChunkText(l) ==
    IF ChunkKind(l) = "chat" THEN Get(Get(Get(l.v, "choices").a[1], "delta"), "content").s
    ELSE IF ChunkKind(l) = "run" THEN Get(l.v, "response").s
    ELSE <<>>

NextShape(s, l) ==
    IF ChunkKind(l) = "framing" THEN s
    ELSE IF ChunkKind(l) \in {"chat", "run"} /\ s \in {"none", ChunkKind(l)}
    THEN ChunkKind(l)
    ELSE "mixed"

(***************************************************************************)
(* The outbound request.  A request body and a payload are functions on    *)
(* their key sets; the model ids are texts.                                *)
(***************************************************************************)
\* cfpipe.
CfPipePrefix ==
    <<"c","f","p","i","p","e",".">>

\* providerX.modelA
ProviderXModelA ==
    <<"p","r","o","v","i","d","e","r","X",".","m","o","d","e","l","A">>

\* modelA
ModelA ==
    <<"m","o","d","e","l","A">>

\* s.split(".", 1)[1], for s that holds a "."
RECURSIVE AfterFirstDot(_)
AfterFirstDot(s) ==
    IF Head(s) = "." THEN Tail(s) ELSE AfterFirstDot(Tail(s))

\* s.replace(old, ""): every occurrence of old goes, left to right
RECURSIVE RemoveAll(_, _)
RemoveAll(s, old) ==
    IF s = <<>> THEN <<>>
    ELSE IF StartsWith(s, old) THEN RemoveAll(Slice(s, Len(old)), old)
    ELSE <<Head(s)>> \o RemoveAll(Tail(s), old)

\* d.get(k, default)
GetOr(d, k, default) == IF k \in DOMAIN d THEN d[k] ELSE default

\* cloudflare: the ids pipes() lists, in its order
pipes ==
    <<
      \* cf-gpt-oss-120b
      <<"c","f","-","g","p","t","-","o","s","s","-","1","2","0","b">>,
      \* cf-llama-3.1-70b-instruct
      <<"c","f","-","l","l","a","m","a","-","3",".","1","-","7","0","b","-","i","n","s",
        "t","r","u","c","t">>,
      \* cf-llama-3.3-70b-instruct-fp8-fast
      <<"c","f","-","l","l","a","m","a","-","3",".","3","-","7","0","b","-","i","n","s",
        "t","r","u","c","t","-","f","p","8","-","f","a","s","t">>,
      \* cf-mistral-small-3.1-24b-instruct
      <<"c","f","-","m","i","s","t","r","a","l","-","s","m","a","l","l","-","3",".","1",
        "-","2","4","b","-","i","n","s","t","r","u","c","t">>,
      \* cf-llama-3.1-8b-instruct
      <<"c","f","-","l","l","a","m","a","-","3",".","1","-","8","b","-","i","n","s","t",
        "r","u","c","t">>,
      \* cf-mistral-7b-instruct-v0.2
      <<"c","f","-","m","i","s","t","r","a","l","-","7","b","-","i","n","s","t","r","u",
        "c","t","-","v","0",".","2">>,
      \* cf-qwen2.5-coder-32b-instruct
      <<"c","f","-","q","w","e","n","2",".","5","-","c","o","d","e","r","-","3","2","b",
        "-","i","n","s","t","r","u","c","t">>,
      \* cf-gemma-3-12b-it
      <<"c","f","-","g","e","m","m","a","-","3","-","1","2","b","-","i","t">>,
      \* cf-gpt-oss-20b
      <<"c","f","-","g","p","t","-","o","s","s","-","2","0","b">>,
      \* cf-llama-3.2-1b-instruct
      <<"c","f","-","l","l","a","m","a","-","3",".","2","-","1","b","-","i","n","s","t",
        "r","u","c","t">>,
      \* cf-llama-3.2-3b-instruct
      <<"c","f","-","l","l","a","m","a","-","3",".","2","-","3","b","-","i","n","s","t",
        "r","u","c","t">>
    >>

\* cloudflare: the "@cf/..." names of model_mapping, in the order of its keys,
\* which is the order of pipes()
model_names ==
    <<
      \* @cf/openai/gpt-oss-120b
      <<"@","c","f","/","o","p","e","n","a","i","/","g","p","t","-","o","s","s","-","1",
        "2","0","b">>,
      \* @cf/meta/llama-3.1-70b-instruct
      <<"@","c","f","/","m","e","t","a","/","l","l","a","m","a","-","3",".","1","-","7",
        "0","b","-","i","n","s","t","r","u","c","t">>,
      \* @cf/meta/llama-3.3-70b-instruct-fp8-fast
      <<"@","c","f","/","m","e","t","a","/","l","l","a","m","a","-","3",".","3","-","7",
        "0","b","-","i","n","s","t","r","u","c","t","-","f","p","8","-","f","a","s",
        "t">>,
      \* @cf/mistral/mistral-small-3.1-24b-instruct
      <<"@","c","f","/","m","i","s","t","r","a","l","/","m","i","s","t","r","a","l","-",
        "s","m","a","l","l","-","3",".","1","-","2","4","b","-","i","n","s","t","r","u",
        "c","t">>,
      \* @cf/meta/llama-3.1-8b-instruct
      <<"@","c","f","/","m","e","t","a","/","l","l","a","m","a","-","3",".","1","-","8",
        "b","-","i","n","s","t","r","u","c","t">>,
      \* @cf/mistral/mistral-7b-instruct-v0.2
      <<"@","c","f","/","m","i","s","t","r","a","l","/","m","i","s","t","r","a","l","-",
        "7","b","-","i","n","s","t","r","u","c","t","-","v","0",".","2">>,
      \* @cf/qwen/qwen2.5-coder-32b-instruct
      <<"@","c","f","/","q","w","e","n","/","q","w","e","n","2",".","5","-","c","o","d",
        "e","r","-","3","2","b","-","i","n","s","t","r","u","c","t">>,
      \* @cf/google/gemma-3-12b-it
      <<"@","c","f","/","g","o","o","g","l","e","/","g","e","m","m","a","-","3","-","1",
        "2","b","-","i","t">>,
      \* @cf/openai/gpt-oss-20b
      <<"@","c","f","/","o","p","e","n","a","i","/","g","p","t","-","o","s","s","-","2",
        "0","b">>,
      \* @cf/meta/llama-3.2-1b-instruct
      <<"@","c","f","/","m","e","t","a","/","l","l","a","m","a","-","3",".","2","-","1",
        "b","-","i","n","s","t","r","u","c","t">>,
      \* @cf/meta/llama-3.2-3b-instruct
      <<"@","c","f","/","m","e","t","a","/","l","l","a","m","a","-","3",".","2","-","3",
        "b","-","i","n","s","t","r","u","c","t">>
    >>

model_mapping ==
    [id \in {pipes[i] : i \in DOMAIN pipes} |->
        model_names[CHOOSE i \in DOMAIN pipes : pipes[i] = id]]

get_cloudflare_model_name(model_id) ==
    IF model_id \in DOMAIN model_mapping THEN model_mapping[model_id] ELSE model_id

\* "openai/gpt-oss" in cf_model_name
uses_responses_endpoint(cf_model_name) ==
    Contains(cf_model_name, <<"o","p","e","n","a","i","/","g","p","t","-","o","s","s">>)

\* cloudflare: the model id pipe looks up
cf_model_id(b) ==
    LET model_id == GetOr(b, "model", <<>>)
    IN  IF Contains(model_id, <<".">>) THEN AfterFirstDot(model_id) ELSE model_id

\* "deepseek.", "mistral.", "perplexity.", "xai."
Prefix(a) ==
    CASE a = "deepseek" -> <<"d","e","e","p","s","e","e","k",".">>
      [] a = "mistral" -> <<"m","i","s","t","r","a","l",".">>
      [] a = "perplexity" -> <<"p","e","r","p","l","e","x","i","t","y",".">>
      [] a = "xai" -> <<"x","a","i",".">>

\* "deepseek-chat", "mistral-large-latest", "sonar", "grok-3"
DefaultModel(a) ==
    CASE a = "deepseek" -> <<"d","e","e","p","s","e","e","k","-","c","h","a","t">>
      [] a = "mistral" ->
           <<"m","i","s","t","r","a","l","-","l","a","r","g","e","-","l","a","t","e","s","t">>
      [] a = "perplexity" -> <<"s","o","n","a","r">>
      [] a = "xai" -> <<"g","r","o","k","-","3">>

\* deepseek, mistral, perplexity, xai: the model id pipe sends
strict_model_id(a, b) ==
    LET model_id == GetOr(b, "model", DefaultModel(a))
    IN  IF StartsWith(model_id, Prefix(a)) THEN RemoveAll(model_id, Prefix(a))
        ELSE model_id

\* "\n\n".join(input_parts)
RECURSIVE Join(_, _)
Join(parts, sep) ==
    IF parts = <<>> THEN <<>>
    ELSE IF Len(parts) = 1 THEN parts[1]
    ELSE parts[1] \o sep \o Join(Tail(parts), sep)

\* \n\n
BlankLine ==
    <<"\n","\n">>

\* /ai/v1/responses
ResponsesPath ==
    <<"/","a","i","/","v","1","/","r","e","s","p","o","n","s","e","s">>

\* /ai/run/
RunPath ==
    <<"/","a","i","/","r","u","n","/">>

\* /chat/completions
ChatCompletionsPath ==
    <<"/","c","h","a","t","/","c","o","m","p","l","e","t","i","o","n","s">>

\* cloudflare: the line messages_to_input makes of one message
input_part(msg) ==
    LET role == GetOr(msg, "role", "user")
        content == GetOr(msg, "content", <<>>)
    IN  CASE role = "system" -> <<"S","y","s","t","e","m",":"," ">> \o content
          [] role = "assistant" ->
               <<"A","s","s","i","s","t","a","n","t",":"," ">> \o content
          [] role = "user" -> <<"U","s","e","r",":"," ">> \o content
          [] OTHER -> content

\* messages_to_input with the parts joined by one newline
messages_to_input_one_newline(messages) ==
    IF messages = <<>> THEN <<>>
    ELSE IF Len(messages) = 1 THEN GetOr(messages[1], "content", <<>>)
    ELSE Join([i \in 1..Len(messages) |-> input_part(messages[i])], <<"\n">>)

messages_to_input(messages) ==
    IF messages = <<>> THEN <<>>
    ELSE IF Len(messages) = 1 THEN GetOr(messages[1], "content", <<>>)
    ELSE Join([i \in 1..Len(messages) |-> input_part(messages[i])], BlankLine)

\* CopiedParams of a pipe that copies every optional parameter
CopiedParams_every(a) ==
    {"temperature", "max_tokens", "top_p", "top_k", "frequency_penalty",
     "presence_penalty", "stop", "min_tokens", "random_seed", "safe_prompt"}

\* the optional parameters each pipe copies into its payload
CopiedParams(a) ==
    CASE a = "cloudflare" -> {"temperature", "max_tokens", "top_p"}
      [] a = "deepseek" -> {"temperature", "max_tokens", "top_p", "frequency_penalty",
                            "presence_penalty", "stop"}
      [] a = "mistral" -> {"temperature", "max_tokens", "top_p", "min_tokens", "stop",
                           "random_seed", "safe_prompt"}
      [] a = "perplexity" -> {"temperature", "max_tokens", "top_p", "top_k",
                              "frequency_penalty", "presence_penalty"}
      [] a = "xai" -> {"temperature", "max_tokens", "top_p", "frequency_penalty",
                       "presence_penalty", "stop"}

\* if "k" in body: payload["k"] = body["k"], for each k of names
copy_params(payload, b, names) ==
    [k \in (DOMAIN b \cap names) |-> b[k]] @@ payload

NoRequest == [url |-> <<>>]

\* cloudflare: what pipe posts, with the stream argument of requests.post
cf_request(v, b) ==
    LET messages == GetOr(b, "messages", <<>>)
        cf_model_name == get_cloudflare_model_name(cf_model_id(b))
        url == IF uses_responses_endpoint(cf_model_name)
               THEN v.account_id \o ResponsesPath
               ELSE v.account_id \o RunPath \o cf_model_name
        payload == IF uses_responses_endpoint(cf_model_name)
                   THEN [model |-> cf_model_name, input |-> messages_to_input(messages)]
                   ELSE [messages |-> messages]
        with_params == copy_params(payload, b, CopiedParams("cloudflare"))
    IN  IF cf_stream
        THEN [url |-> url, payload |-> ("stream" :> TRUE) @@ with_params,
              stream |-> TRUE]
        ELSE [url |-> url, payload |-> with_params, stream |-> FALSE]

\* deepseek, mistral, perplexity, xai: what _handle_non_stream or
\* _handle_stream posts
strict_request(a, b) ==
    LET payload == [model |-> strict_model_id(a, b),
                    messages |-> GetOr(b, "messages", <<>>)]
        with_params == copy_params(payload, b, CopiedParams(a))
        stream == StreamFlag(b)
    IN  [url |-> ChatCompletionsPath, payload |-> ("stream" :> stream) @@ with_params,
         stream |-> stream]

(***************************************************************************)
(* The state machine.                                                      *)
(***************************************************************************)
Key == <<"k">>
Account == <<"i">>
ModelId == <<"m">>

Requests ==
    { [model |-> ModelId],
      [model |-> ModelId, stream |-> FALSE],
      [model |-> ModelId, stream |-> TRUE] }

Init ==
    /\ adapter \in Adapters
    /\ valves \in [api_key : {<<>>, Key}, account_id : {<<>>, Account}]
    /\ adapter \in StrictAdapters => valves.account_id = <<>>
    /\ body \in Requests
    /\ pc = "ready"
    /\ ret = NoValue
    /\ raised = NoExc
    /\ httpCalls = 0
    /\ response = NoResponse
    /\ gen = "none"
    /\ term = ""
    /\ emitted = <<>>
    /\ nread = 0
    /\ last = NoLine
    /\ carried = <<>>
    /\ shape = "none"
    /\ sent = NoRequest
    /\ conn = "none"

\* the host calls pipe(body), and requests.post does one of outcomes
PipeWith(outcomes) ==
    /\ pc = "ready"
    /\ \E o \in outcomes, cls \in {"RequestException", "Exception"} :
         LET r == IF adapter = "cloudflare" THEN cf_pipe(valves, o, cls)
                  ELSE strict_pipe(adapter, valves, body, o, cls)
         IN  /\ ret' = r.ret
             /\ httpCalls' = httpCalls + r.calls
             /\ response' = IF r.calls = 0 THEN response ELSE o
             /\ sent' = IF r.calls = 0 THEN sent
                        ELSE IF adapter = "cloudflare" THEN cf_request(valves, body)
                        ELSE strict_request(adapter, body)
             /\ gen' = r.gen
    /\ pc' = "returned"
    /\ UNCHANGED <<adapter, valves, body, raised, term, emitted, nread, last,
                   carried, shape, conn>>

\* the host calls pipe(body)
Pipe == PipeWith(NetOutcomes)

\* cloudflare: stream_response(response) is called with an open streaming
\* response (pipe itself never does so: cf_stream) and its generator is started
StreamResponse ==
    /\ pc = "ready"
    /\ adapter = "cloudflare"
    /\ pc' = "decoder"
    /\ ret' = Generator
    /\ gen' = "running"
    /\ conn' = "open"
    /\ UNCHANGED <<adapter, valves, body, raised, httpCalls, response, term, emitted, nread,
                   last, carried, shape, sent>>

\* deepseek, mistral, perplexity, xai: the consumer's first next() runs
\* _handle_stream up to its for loop
FirstPull ==
    /\ gen = "created"
    /\ \E o \in StreamOutcomes :
         /\ httpCalls' = httpCalls + 1
         /\ response' = o
         /\ sent' = strict_request(adapter, body)
         /\ conn' = IF o.k = "response" THEN "open" ELSE conn
         /\ IF o.k # "response"
            THEN /\ raised' = PostError(o)
                 /\ gen' = "finished"
                 /\ term' = "raised"
            ELSE IF o.status >= 400
            THEN /\ raised' = Exc("RequestException", HTTPErrorText(o.status))
                 /\ gen' = "finished"
                 /\ term' = "raised"
            ELSE /\ raised' = raised
                 /\ gen' = "running"
                 /\ term' = term
    /\ UNCHANGED <<adapter, valves, body, pc, ret, emitted, nread, last, carried,
                   shape>>

\* an exception e leaves the for loop: stream_response catches it and yields
\* one notice; _handle_stream has no handler and the consumer gets e
LoopRaises(e) ==
    IF adapter = "cloudflare"
    THEN /\ emitted' = Append(emitted, Str(CF_StreamErrPrefix \o e.text))
         /\ term' = "error"
         /\ raised' = raised
    ELSE /\ emitted' = emitted
         /\ term' = "raised"
         /\ raised' = e

\* one pass of `for line in response.iter_lines()` over the next line l
ReadLine ==
    /\ gen = "running"
    /\ nread < MaxLines
    /\ \E l \in Lines :
         LET d == IF adapter = "cloudflare" THEN cf_line(l) ELSE strict_line(l)
         IN  /\ last' = l
             /\ shape' = NextShape(shape, l)
             /\ carried' = IF NextShape(shape, l) = "mixed" THEN <<>>
                           ELSE carried \o ChunkText(l)
             /\ CASE d.ctl = "continue" ->
                       /\ emitted' = emitted \o d.out
                       /\ UNCHANGED <<gen, term, raised>>
                  [] d.ctl = "break" ->
                       /\ gen' = "finished"
                       /\ term' = "done"
                       /\ UNCHANGED <<emitted, raised>>
                  [] d.ctl = "raise" ->
                       /\ gen' = "finished"
                       /\ LoopRaises(d.e)
    /\ nread' = nread + 1
    /\ UNCHANGED <<adapter, valves, body, pc, ret, httpCalls, response, sent, conn>>

\* response.iter_lines() raises instead of giving a line: the connection broke,
\* and a broken connection is gone
ReadFail ==
    /\ gen = "running"
    /\ nread < MaxLines
    /\ nread' = nread + 1
    /\ last' = [k |-> "broken"]
    /\ shape' = "mixed"
    /\ carried' = <<>>
    /\ gen' = "finished"
    /\ LoopRaises(Exc("RequestException", BrokenText))
    /\ conn' = "released"
    /\ UNCHANGED <<adapter, valves, body, pc, ret, httpCalls, response, sent>>

\* response.iter_lines() is exhausted: the body was read to its end, on which
\* requests gives the connection back
EndOfStream ==
    /\ gen = "running"
    /\ gen' = "finished"
    /\ term' = "eof"
    /\ conn' = "released"
    /\ UNCHANGED <<adapter, valves, body, pc, ret, raised, httpCalls, response, emitted,
                   nread, last, carried, shape, sent>>

\* the consumer stops pulling: the generator stays suspended at its yield, or
\* before its next line, and no statement of it runs again
StopPulling ==
    /\ gen = "running"
    /\ gen' = "stopped"
    /\ UNCHANGED <<adapter, valves, body, pc, ret, raised, httpCalls, response, term,
                   emitted, nread, last, carried, shape, sent, conn>>

\* the interpreter finalizes the response object of a generator that has
\* ended or was given up, which closes its connection; no statement of the
\* pipes closes it, and when or whether the interpreter does is not theirs to
\* say
Finalize ==
    /\ gen \in {"finished", "stopped"}
    /\ conn = "open"
    /\ conn' = "released"
    /\ UNCHANGED <<adapter, valves, body, pc, ret, raised, httpCalls, response, gen,
                   term, emitted, nread, last, carried, shape, sent>>

Next ==
    \/ Pipe
    \/ StreamResponse
    \/ FirstPull
    \/ ReadLine
    \/ ReadFail
    \/ EndOfStream
    \/ StopPulling
    \/ Finalize

Spec == Init /\ [][Next]_vars

\* the steps the pipes' own code takes are taken: a call of pipe returns, and
\* a pull of the consumer gets a line, an error or the end of the stream.
\* Nothing makes a consumer go on pulling, nor the interpreter finalize.
LiveSpec ==
    /\ Spec
    /\ WF_vars(Pipe)
    /\ WF_vars(FirstPull)
    /\ WF_vars(ReadLine \/ ReadFail \/ EndOfStream)

(***************************************************************************)
(* The requests of the hosts.  RequestSpec starts pipe() from a request    *)
(* with any of the model ids, conversations, optional parameters and       *)
(* stream flags below, and follows it up to the request it posts.          *)
(***************************************************************************)
MaxMessages == 3
MaxParams == 1

\* be terse
BeTerse ==
    <<"b","e"," ","t","e","r","s","e">>

\* 2+2?
TwoPlusTwo ==
    <<"2","+","2","?">>

\* 4
Four ==
    <<"4">>

\* hi
Hi ==
    <<"h","i">>

\* messages of a conversation; "role" and "content" may be missing
MessagePool ==
    { [role |-> "system", content |-> BeTerse],
      [role |-> "user", content |-> TwoPlusTwo],
      [role |-> "assistant", content |-> Four],
      [role |-> "tool", content |-> Hi],
      [content |-> Hi],
      [role |-> "user"] }

MessageLists == UNION {[1..n -> MessagePool] : n \in 0..MaxMessages}

\* the model ids a host sends: bare or with a namespace prefix
ModelIds(a) ==
    IF a = "cloudflare"
    THEN {pipes[i] : i \in DOMAIN pipes}
         \cup {CfPipePrefix \o pipes[i] : i \in DOMAIN pipes}
         \cup {ModelA, ProviderXModelA}
    ELSE {DefaultModel(a), Prefix(a) \o DefaultModel(a), Prefix(a) \o Prefix(a) \o ModelA,
          ModelA, ProviderXModelA}

ParamNames ==
    {"temperature", "max_tokens", "top_p", "top_k", "frequency_penalty",
     "presence_penalty", "stop", "min_tokens", "random_seed", "safe_prompt"}

\* a value for each parameter, all different
ParamValue(k) ==
    CASE k = "temperature" -> 1 [] k = "max_tokens" -> 2 [] k = "top_p" -> 3
      [] k = "top_k" -> 4 [] k = "frequency_penalty" -> 5
      [] k = "presence_penalty" -> 6 [] k = "stop" -> 7 [] k = "min_tokens" -> 8
      [] k = "random_seed" -> 9 [] k = "safe_prompt" -> 10

ParamSets ==
    {S \in SUBSET ParamNames : Cardinality(S) <= MaxParams} \cup {ParamNames}

RequestBodies(a) ==
    { [k \in S |-> TRUE] @@ [k \in P |-> ParamValue(k)] @@ ("model" :> m) :
        S \in SUBSET {"stream"}, P \in ParamSets, m \in ModelIds(a) }
    \cup { [k \in P |-> ParamValue(k)] @@ [stream |-> s] :
             P \in ParamSets, s \in BOOLEAN }
    \cup { [model |-> pipes[1], messages |-> ms] : ms \in MessageLists }
    \cup { [model |-> pipes[5], messages |-> ms] :
             ms \in {l \in MessageLists : Len(l) <= 1} }

RequestOutcomes ==
    { o \in NetOutcomes :
        \/ o.k = "timeout"
        \/ /\ o.k = "response"
           /\ o.status = 401
           /\ o.text = <<"q">>
        \/ /\ o.k = "response"
           /\ o.status = 200
           /\ o.json = Dict([response |-> Str(TextA),
                             choices |-> Arr(<<Message(Str(TextB))>>)]) }

InitRequest ==
    /\ adapter \in Adapters
    /\ valves \in [api_key : {<<>>, Key}, account_id : {<<>>, Account}]
    /\ adapter \in StrictAdapters => valves.account_id = <<>>
    /\ body \in RequestBodies(adapter)
    /\ pc = "ready"
    /\ ret = NoValue
    /\ raised = NoExc
    /\ httpCalls = 0
    /\ response = NoResponse
    /\ gen = "none"
    /\ term = ""
    /\ emitted = <<>>
    /\ nread = 0
    /\ last = NoLine
    /\ carried = <<>>
    /\ shape = "none"
    /\ sent = NoRequest
    /\ conn = "none"

\* the host calls pipe(body); the provider answers in one of three ways
PipeRequest == PipeWith(RequestOutcomes)

NextRequest ==
    \/ PipeRequest
    \/ FirstPull

RequestSpec == InitRequest /\ [][NextRequest]_vars

(***************************************************************************)
(* Properties.                                                             *)
(***************************************************************************)
\* l is a data line, and Payload(l) the text after its "data: " prefix
IsTextData(l) == l.k = "text" /\ StartsWith(l.s, DataPrefix)
Payload(l) == Slice(l.s, 6)

PaddedDoneLine == TextLine(DataPrefix \o <<" ">> \o DoneMarker \o <<" ">>)
OopsLine == TextLine(DataPrefix \o <<"o","o","p","s">>)

\* a line was taken from the stream in this step
LineRead == nread' = nread + 1

\* the line l ends decoding in this adapter's decoder
C1_EndsDecoding(l) ==
    /\ IsTextData(l)
    /\ IF adapter = "cloudflare" THEN Payload(l) = DoneMarker
       ELSE Strip(Payload(l)) = DoneMarker

\* C1, as amended.  Once the line "data: [DONE]" is read, decoding ends: that
\* line yields no fragment, no later line is read and nothing is yielded
\* afterwards.  In the DeepSeek, Mistral, Perplexity and x.AI decoders this
\* also holds with whitespace around the [DONE] payload; in the Cloudflare
\* decoder only the payload that is exactly [DONE] ends decoding.
C1_DoneTerminates ==
    [][/\ (LineRead /\ C1_EndsDecoding(last'))
          => (gen' = "finished" /\ term' = "done" /\ emitted' = emitted
              /\ raised' = raised)
       /\ term = "done"
          => (gen' = "finished" /\ nread' = nread /\ emitted' = emitted)]_vars

\* C1, witness: a strict decoder that had yielded fragments has ended on a
\* [DONE] payload with whitespace around it.
C1_Witness ==
    /\ adapter \in StrictAdapters
    /\ term = "done"
    /\ last = PaddedDoneLine
    /\ nread >= 2
    /\ emitted # <<>>

\* C1, as stated.  In every adapter, Cloudflare included, a [DONE] payload
\* ends decoding also when whitespace surrounds it.
C1_Original ==
    [][/\ (LineRead /\ IsTextData(last') /\ Strip(Payload(last')) = DoneMarker)
          => (gen' = "finished" /\ term' = "done" /\ emitted' = emitted
              /\ raised' = raised)
       /\ term = "done"
          => (gen' = "finished" /\ nread' = nread /\ emitted' = emitted)]_vars

\* the fragments, all texts, joined in emission order
RECURSIVE Joined(_)
Joined(fs) == IF fs = <<>> THEN <<>> ELSE Head(fs).s \o Joined(Tail(fs))

\* the complete answer that carries text x in the shape of the stream's chunks
CompleteAnswer(s, x) ==
    IF s = "chat" THEN Dict([choices |-> Arr(<<Message(Str(x))>>)])
    ELSE RunChunk(x)

\* what the adapter's non-streaming pipe returns for the answer j with status 200
NonStreaming(a, j) ==
    LET o == [k |-> "response", status |-> 200, text |-> <<>>, json |-> j]
    IN  IF a = "cloudflare"
        THEN cf_pipe([api_key |-> Key, account_id |-> Account], o, "Exception").ret
        ELSE strict_pipe(a, [api_key |-> Key, account_id |-> <<>>],
                         [model |-> ModelId], o, "Exception").ret

\* C2, as stated.  When a stream of an adapter has been decoded to its end,
\* the fragments joined in emission order are the text the adapter's
\* non-streaming path returns for the complete answer carrying the same text
\* (chat-completion chunks for every adapter, Workers AI chunks for Cloudflare).
C2_Original ==
    (/\ term \in {"done", "eof"}
     /\ shape \in (IF adapter = "cloudflare" THEN {"chat", "run"} ELSE {"chat"}))
    => /\ \A i \in 1..Len(emitted) : IsStr(emitted[i])
       /\ Str(Joined(emitted)) = NonStreaming(adapter, CompleteAnswer(shape, carried))

\* the substrings looked for in the text of a missing key
ApiKeyUpper ==
    <<"A","P","I"," ","K","e","y">>

ApiKeyLower ==
    <<"A","P","I"," ","k","e","y">>

ApiKeyUnderscore ==
    <<"A","P","I","_","K","E","Y">>

\* C3, as amended.  With an empty API key valve pipe returns a text naming the
\* missing key ("API Key" in the Cloudflare text, "API_KEY" in the DeepSeek,
\* Mistral, Perplexity and x.AI texts) and issues no HTTP request.
C3_MissingKey ==
    (pc = "returned" /\ valves.api_key = <<>>)
    => /\ IsStr(ret)
       /\ StartsWith(ret.s, ErrorPrefix)
       /\ IF adapter = "cloudflare" THEN Contains(ret.s, ApiKeyUpper)
          ELSE Contains(ret.s, ApiKeyUnderscore)
       /\ httpCalls = 0
       /\ gen = "none"

\* C3, witness: a strict pipe asked to stream has returned with an empty key.
C3_Witness ==
    /\ pc = "returned"
    /\ valves.api_key = <<>>
    /\ adapter = "deepseek"
    /\ StreamFlag(body)
    /\ IsStr(ret)

\* C3, as stated.  With an empty API key valve the text pipe returns contains
\* "API Key" or "API key", and no HTTP request is issued.
C3_Original ==
    (pc = "returned" /\ valves.api_key = <<>>)
    => /\ IsStr(ret)
       /\ (Contains(ret.s, ApiKeyUpper) \/ Contains(ret.s, ApiKeyLower))
       /\ httpCalls = 0

\* C4, as stated.  No exception reaches the host, neither from the call of
\* pipe nor from pulling the fragments of the sequence it returned.
C4_Original == raised = NoExc /\ term # "raised"

\* a fragment that is a readable error notice
ErrorWord == <<"E","r","r","o","r">>
IsNotice(f) == IsStr(f) /\ Contains(f.s, ErrorWord)

\* C5, as stated.  When reading the line stream raises after k fragments, the
\* sequence ends with those k fragments and one more, the error notice, and
\* the consumer gets no exception.
C5_Original ==
    [][(LineRead /\ last'.k \in {"broken", "bytes"})
       => /\ gen' = "finished"
          /\ raised' = NoExc
          /\ Len(emitted') = Len(emitted) + 1
          /\ SubSeq(emitted', 1, Len(emitted)) = emitted
          /\ IsNotice(emitted'[Len(emitted')])]_vars

\* l is a data line whose payload is not JSON and is not exactly [DONE]
Malformed(l) == IsTextData(l) /\ Payload(l) # DoneMarker

ErrorStatus == response.k = "response" /\ response.status \notin 200..299

\* C7, as stated.  When the provider answers with a non-success status, the
\* result is an error text that carries the status code and the raw body
\* text, and exactly one HTTP request was issued.
C7_Original ==
    ErrorStatus
    => /\ httpCalls = 1
       /\ raised = NoExc
       /\ IsStr(ret)
       /\ Contains(ret.s, NatToText(response.status))
       /\ Contains(ret.s, response.text)

\* the non-streaming path got the answer j with status 200
Answered(j) ==
    /\ pc = "returned"
    /\ gen = "none"
    /\ response.k = "response"
    /\ response.status = 200
    /\ response.json = j

\* C8, as stated.  In every adapter the answer
\* {choices: [{message: {content: X}}]} makes the non-streaming path return X.
C8_Original ==
    \A x \in {TextA, TextB} :
        Answered(Dict([choices |-> Arr(<<Message(Str(x))>>)])) => ret = Str(x)

\* the object the extraction works on: the value of "result" if there is one
Unwrapped(j) == IF IsDict(j) /\ Has(j, "result") THEN Get(j, "result") ELSE j

\* w holds an "output" sequence
HasOutput(w) == IsDict(w) /\ Has(w, "output") /\ IsList(Get(w, "output"))

\* the positions of the elements of type ty in the sequence xs
Positions(xs, ty) == {i \in 1..Len(xs) : TypeIs(xs[i], ty)}

Min(S) == CHOOSE i \in S : \A j \in S : i <= j

\* the first element of type "message" of the output sequence holds an
\* element of type "output_text", and FirstText is the text of the first such
FirstMessage(out) == out[Min(Positions(out, <<"message">>))]
HasFirstText(out) ==
    /\ Positions(out, <<"message">>) # {}
    /\ Has(FirstMessage(out), "content")
    /\ Positions(Get(FirstMessage(out), "content").a, <<"output_text">>) # {}
FirstText(out) ==
    LET content == Get(FirstMessage(out), "content").a
    IN  Get(content[Min(Positions(content, <<"output_text">>))], "text")

\* the Cloudflare non-streaming path got the answer held in response
CfAnswered ==
    /\ adapter = "cloudflare"
    /\ pc = "returned"
    /\ response.k = "response"
    /\ response.status = 200
    /\ response.json # NotJson

\* C9, as amended.  For a non-streaming Cloudflare answer whose (optionally
\* result-wrapped) object has no response field and has an output sequence
\* whose first message element holds an output_text element, the text
\* returned is that of the first output_text element inside the first message
\* element; output elements of other types, before or after it, do not
\* change it.
C9_OutputText ==
    (/\ CfAnswered
     /\ HasOutput(Unwrapped(response.json))
     /\ ~Has(Unwrapped(response.json), "response")
     /\ HasFirstText(Get(Unwrapped(response.json), "output").a))
    => ret = FirstText(Get(Unwrapped(response.json), "output").a)

\* C9, witness: Cloudflare has answered with an output sequence that holds a
\* reasoning element before the message, inside a result envelope.
C9_Witness ==
    /\ CfAnswered
    /\ response.json
         = Dict([result |->
              Dict([output |-> Arr(<<ReasoningItem,
                                     MessageItem(<<Refusal, OutputText(TextB)>>)>>)])])
    /\ ret = Str(TextB)

\* C9, as stated.  For every non-streaming Cloudflare answer whose (optionally
\* result-wrapped) object has an output sequence (holding such elements), the
\* text returned is that of the first output_text element inside the first
\* message element.
C9_Original ==
    (/\ CfAnswered
     /\ HasOutput(Unwrapped(response.json))
     /\ HasFirstText(Get(Unwrapped(response.json), "output").a))
    => ret = FirstText(Get(Unwrapped(response.json), "output").a)

\* the result of the extraction rules of the specification, in their order
C10_Rules(j) ==
    LET w == Unwrapped(j)
    IN  IF IsStr(j) THEN j
        ELSE IF IsStr(w) THEN w
        ELSE IF IsDict(w) /\ Has(w, "response") THEN Get(w, "response")
        ELSE IF IsDict(w) /\ Has(w, "choices") /\ Get(w, "choices").a # <<>>
                /\ Has(Get(w, "choices").a[1], "message")
        THEN Get(Get(Get(w, "choices").a[1], "message"), "content")
        ELSE IF HasOutput(w) /\ HasFirstText(Get(w, "output").a)
        THEN FirstText(Get(w, "output").a)
        ELSE Str(CF_ExtractPrefix
                 \o (IF IsDict(j) THEN ListRepr(Keys(j)) ELSE CF_NotADict))

\* C10, as stated.  The extraction applies its rules in order, the first match
\* wins: a top-level string is returned as is; else the result envelope is
\* unwrapped; then the response field, then a non-empty choices sequence, then
\* an output sequence; and when none matches the result is an error text that
\* lists the top-level keys of the body.
C10_Original ==
    (CfAnswered /\ (IsStr(response.json) \/ IsDict(response.json)))
    => ret = C10_Rules(response.json)

\* providerX.
ProviderXPrefix ==
    <<"p","r","o","v","i","d","e","r","X",".">>

\* the namespace prefixes a host puts before a model id
HostPrefixes ==
    {CfPipePrefix, ProviderXPrefix} \cup {Prefix(a) : a \in StrictAdapters}

HasHostPrefix(m) == \E p \in HostPrefixes : StartsWith(m, p)

\* the id the request names, once the host's prefix is taken away
RequestedId == IF HasHostPrefix(body.model) THEN AfterFirstDot(body.model) ELSE body.model

\* the post names the model `name`: in the payload, or for a Workers AI run
\* in the URL
PostNames(name) ==
    IF adapter = "cloudflare"
    THEN IF uses_responses_endpoint(name)
         THEN /\ "model" \in DOMAIN sent.payload
              /\ sent.payload.model = name
         ELSE sent.url = valves.account_id \o RunPath \o name
    ELSE sent.payload.model = name

\* C11, as stated.  When an adapter has posted a request whose model id is
\* "<prefix>.<rest>" with a host namespace prefix, the id it looked up and sent
\* is the part after the first "."; an id without a host namespace prefix is
\* looked up and sent unchanged.
C11_Original ==
    (httpCalls > 0 /\ "model" \in DOMAIN body) =>
        IF adapter = "cloudflare"
        THEN PostNames(get_cloudflare_model_name(RequestedId))
        ELSE PostNames(RequestedId)

\* the ids pipes() lists
Catalog == {pipes[i] : i \in DOMAIN pipes}

\* C12, as stated.  When the Cloudflare adapter has posted a request for an id
\* that pipes() lists, given bare or behind a host namespace prefix, the post
\* names the "@cf/..." name the catalog maps that id to; for an id the catalog
\* does not hold, the post names the id itself.
C12_Original ==
    (adapter = "cloudflare" /\ httpCalls > 0 /\ "model" \in DOMAIN body) =>
        /\ \A id \in Catalog :
             body.model \in {id, CfPipePrefix \o id} => PostNames(model_mapping[id])
        /\ RequestedId \notin Catalog => PostNames(RequestedId)

\* every message names its role and its content
WellFormed(ms) == \A i \in 1..Len(ms) : {"role", "content"} \subseteq DOMAIN ms[i]

\* the label the flattened text puts before a message's content
RoleLabel(role) ==
    CASE role = "system" -> <<"S", "y", "s", "t", "e", "m", ":", " ">>
      [] role = "user" -> <<"U", "s", "e", "r", ":", " ">>
      [] role = "assistant" -> <<"A", "s", "s", "i", "s", "t", "a", "n", "t", ":", " ">>
      [] OTHER -> <<>>

\* the messages in their order, each behind its label, a blank line between
RECURSIVE Flattened(_)
Flattened(ms) ==
    IF Len(ms) = 1 THEN RoleLabel(ms[1].role) \o ms[1].content
    ELSE RoleLabel(ms[1].role) \o ms[1].content \o <<"\n", "\n">> \o Flattened(Tail(ms))

ExampleMessages ==
    << [role |-> "system", content |-> BeTerse],
       [role |-> "user", content |-> TwoPlusTwo],
       [role |-> "assistant", content |-> Four] >>

\* System: be terse\n\nUser: 2+2?\n\nAssistant: 4
ExampleInput ==
    <<"S","y","s","t","e","m",":"," ","b","e"," ","t","e","r","s","e","\n","\n","U","s","e",
    "r",":"," ","2","+","2","?","\n","\n","A","s","s","i","s","t","a","n","t",":"," ",
    "4">>

\* the Cloudflare adapter has posted a flattened conversation
Flattens ==
    /\ adapter = "cloudflare"
    /\ httpCalls > 0
    /\ "input" \in DOMAIN sent.payload
    /\ "messages" \in DOMAIN body

\* C13.  The input the Cloudflare adapter posts for a conversation whose
\* messages name role and content is: for one message, its content verbatim;
\* for two or more, the messages in order, each as "System: c", "User: c" or
\* "Assistant: c" for those roles and as c alone for any other role, joined by
\* "\n\n".  For [{system, "be terse"}, {user, "2+2?"}, {assistant, "4"}] it is
\* "System: be terse\n\nUser: 2+2?\n\nAssistant: 4".
C13_Flattening ==
    (Flattens /\ WellFormed(body.messages)) =>
        /\ Len(body.messages) = 1 => sent.payload.input = body.messages[1].content
        /\ Len(body.messages) >= 2 => sent.payload.input = Flattened(body.messages)
        /\ body.messages = ExampleMessages => sent.payload.input = ExampleInput

C13_Witness ==
    /\ Flattens
    /\ body.messages = ExampleMessages
    /\ sent.payload.input = ExampleInput

\* an adapter has posted a request
Posted == httpCalls > 0

\* C14, as stated.  In the body an adapter posts, each optional sampling
\* parameter of the request is present with the request's value, and each one
\* the request does not hold is absent.
C14_Original ==
    Posted =>
        \A k \in ParamNames :
            IF k \in DOMAIN body
            THEN k \in DOMAIN sent.payload /\ sent.payload[k] = body[k]
            ELSE k \notin DOMAIN sent.payload

\* the optional parameters each provider's adapter forwards
Forwarded(a) ==
    {"temperature", "max_tokens", "top_p"}
    \cup (IF a \in {"deepseek", "xai", "perplexity"}
          THEN {"frequency_penalty", "presence_penalty"} ELSE {})
    \cup (IF a \in {"deepseek", "xai", "mistral"} THEN {"stop"} ELSE {})
    \cup (IF a = "perplexity" THEN {"top_k"} ELSE {})
    \cup (IF a = "mistral" THEN {"min_tokens", "random_seed", "safe_prompt"} ELSE {})

\* C14, amended.  In the body an adapter posts, each optional parameter of the
\* adapter's own list that the request holds is present with the request's
\* value, and every other optional parameter is absent, whether the request
\* holds it or not.
C14_OwnParameters ==
    Posted =>
        \A k \in ParamNames :
            IF k \in DOMAIN body /\ k \in Forwarded(adapter)
            THEN k \in DOMAIN sent.payload /\ sent.payload[k] = body[k]
            ELSE k \notin DOMAIN sent.payload

\* a request with every optional parameter was posted: some were copied and
\* some were dropped
C14_Witness ==
    /\ Posted
    /\ ParamNames \subseteq DOMAIN body
    /\ \E k \in ParamNames : k \in DOMAIN sent.payload /\ sent.payload[k] = body[k]
    /\ \E k \in ParamNames : k \notin DOMAIN sent.payload

\* the valves the adapter needs are set
Configured ==
    /\ valves.api_key # <<>>
    /\ adapter = "cloudflare" => valves.account_id # <<>>

\* the provider answered pipe's request with status 200
AnsweredOk ==
    /\ pc = "returned"
    /\ gen = "none"
    /\ response.k = "response"
    /\ response.status = 200

\* pipe's only way to tell its caller anything is the value it returns: the
\* caller is told when that value is not the one the same answer gives a caller
\* that did not ask for streaming
Informed == ret # NonStreaming(adapter, response.json)

\* C15, as stated.  With its valves set, a DeepSeek, Mistral, Perplexity or
\* x.AI adapter posts the request's stream flag (false when absent) and returns
\* a fragment sequence exactly when the flag is true; the Cloudflare adapter
\* never posts a streaming request and always returns a single text, and a
\* caller that asked for streaming is informed that the answer is not
\* incremental.
C15_Original ==
    (Configured /\ pc = "returned") =>
        IF adapter \in StrictAdapters
        THEN /\ Posted => sent.payload.stream = StreamFlag(body)
             /\ ret = Generator <=> StreamFlag(body)
        ELSE /\ Posted => ~sent.stream /\ "stream" \notin DOMAIN sent.payload
             /\ IsStr(ret)
             /\ gen = "none"
             /\ (StreamFlag(body) /\ AnsweredOk) => Informed

\* the fragments of a choices sequence: one for each element whose delta has
\* content that is not empty
RECURSIVE C16_Choices(_)
C16_Choices(cs) ==
    IF cs = <<>> THEN <<>>
    ELSE LET c == Head(cs)
             has == /\ Has(c, "delta")
                    /\ Has(Get(c, "delta"), "content")
                    /\ IsStr(Get(Get(c, "delta"), "content"))
                    /\ Get(Get(c, "delta"), "content").s # <<>>
         IN  (IF has THEN <<Get(Get(c, "delta"), "content")>> ELSE <<>>)
             \o C16_Choices(Tail(cs))

\* the fragments of a parsed payload j, by the first rule that applies; a rule
\* applies when its field is there
C16_Rules(j) ==
    IF Has(j, "response") THEN <<Get(j, "response")>>
    ELSE IF Has(j, "result")
    THEN LET result == Get(j, "result")
         IN  IF IsStr(result) THEN <<result>>
             ELSE IF IsDict(result) /\ Has(result, "response")
             THEN <<Get(result, "response")>>
             ELSE <<>>
    ELSE IF Has(j, "choices") THEN C16_Choices(Get(j, "choices").a)
    ELSE IF Has(j, "content") THEN <<Get(j, "content")>>
    ELSE <<>>

\* C16, as stated.  When a decoder reads a "data: " line whose payload parses
\* as a JSON object, it yields the fragments of the first rule that applies - top-level
\* response; else result, a string or an object with response; else choices,
\* one fragment per element with non-empty delta content; else top-level
\* content; else nothing - and decoding continues.
C16_Original ==
    [][(LineRead /\ last'.k = "event" /\ IsDict(last'.v))
       => /\ emitted' = emitted \o C16_Rules(last'.v)
          /\ gen' = "running"]_vars

\* C17, as stated.  The connection of a streaming response whose lines are
\* being decoded is eventually released in every run: when the lines are
\* exhausted, when [DONE] or a read error ends decoding, and when the consumer
\* stops pulling.
C17_Original == (gen = "running" /\ conn = "open") ~> (conn = "released")

\* a DeepSeek, Mistral, Perplexity or x.AI adapter with a key is asked to stream
StreamingAsked ==
    /\ adapter \in StrictAdapters
    /\ valves.api_key # <<>>
    /\ StreamFlag(body)

\* the post of this step failed, or its answer has an error status
PostFailed == response'.k # "response" \/ response'.status >= 400

\* C18.  A DeepSeek, Mistral, Perplexity or x.AI adapter with a non-empty key
\* and stream true returns the fragment sequence from pipe without a request;
\* the one request is posted by the consumer's first pull, after pipe has
\* returned, and when it fails or is answered with an error status the
\* exception reaches the consumer instead of being turned into pipe's error
\* text; as long as the sequence is not pulled no request is issued.
C18_LazyRequest ==
    [][StreamingAsked
       => /\ pc = "ready"
             => (pc' = "returned" /\ ret' = Generator /\ gen' = "created"
                 /\ httpCalls' = 0)
          /\ httpCalls' # httpCalls
             => (pc = "returned" /\ gen = "created" /\ gen' # "created"
                 /\ httpCalls = 0 /\ httpCalls' = 1)
          /\ gen = "created" /\ gen' = "created" => httpCalls' = 0
          /\ (httpCalls' # httpCalls /\ PostFailed)
             => (raised' # NoExc /\ ret' = Generator /\ gen' = "finished")]_vars

\* the first pull of a returned sequence posted the one request, and its
\* failure reached the consumer
C18_Witness ==
    /\ StreamingAsked
    /\ pc = "returned"
    /\ ret = Generator
    /\ httpCalls = 1
    /\ raised # NoExc
    /\ nread = 0
====
